---- MODULE Spec2Model ----
(***************************************************************************)
(* Model of cli/tools/run.rs: the three run commands (run_script,          *)
(* run_from_stdin, eval_command) and the watch-mode restart loop           *)
(* (run_with_watch driving util::file_watcher::watch_func2).               *)
(*                                                                         *)
(* One behaviour is one invocation of one of the three public operations.  *)
(* Every fallible call or await of the source is one action; the outcome   *)
(* of a collaborator (ProcState construction, module resolution, worker    *)
(* creation, the worker's run) is chosen with \E at the step that calls it.*)
(***************************************************************************)
EXTENDS Integers, Sequences, FiniteSets, TLC

\* ------------------------------------------------------------------ bounds
\* longest standard-input byte sequence explored
MaxStdinLen == 3
\* longest inline code string (in characters) explored
MaxCodeLen == 2
\* number of change notifications the environment may send
MaxChanges == 2

\* ------------------------------------------------------------ input domains
\* bytes that may appear on standard input: 'A', 0xC3, 0xA9, 0xE2, 0xFF
StdinBytes == {65, 195, 169, 226, 255}
\* characters (Unicode scalar values) of inline code: '1', U+00E9, U+20AC
CodeChars == {49, 233, 8364}
\* exit codes a worker may report (i32)
ExitCodes == {0, 1, 3, 255, 256, -1}
\* permission options parsed before the script argument
PermOptionSets == {{}, {"read"}, {"net_invalid"}}
\* argv: what follows the script argument
ArgvSets == {<< >>, <<"--allow-read">>, <<"arg">>}

RECURSIVE SeqsUpTo(_, _)
SeqsUpTo(S, n) ==
  IF n = 0 THEN {<< >>}
  ELSE LET shorter == SeqsUpTo(S, n - 1)
       IN  shorter \cup {Append(s, x) : s \in {t \in shorter : Len(t) = n - 1}, x \in S}

FlagsDomain ==
  [watch : BOOLEAN, perms : PermOptionSets, argv : ArgvSets]

EvalFlagsDomain ==
  [print : BOOLEAN, code : SeqsUpTo(CodeChars, MaxCodeLen)]

NoEvalFlags == [print |-> FALSE, code |-> << >>]

\* --------------------------------------------------------------- UTF-8 text
\* String::into_bytes: the UTF-8 encoding of one character
EncodeChar(c) ==
  IF c < 128 THEN <<c>>
  ELSE IF c < 2048 THEN <<192 + (c \div 64), 128 + (c % 64)>>
  ELSE IF c < 65536 THEN
    <<224 + (c \div 4096), 128 + ((c \div 64) % 64), 128 + (c % 64)>>
  ELSE <<240 + (c \div 262144), 128 + ((c \div 4096) % 64),
         128 + ((c \div 64) % 64), 128 + (c % 64)>>

RECURSIVE into_bytes(_)
into_bytes(s) ==
  IF s = << >> THEN << >> ELSE EncodeChar(Head(s)) \o into_bytes(Tail(s))

\* length of the well-formed UTF-8 sequence starting at the head of bytes,
\* 0 when the head does not start one
Utf8Width(bytes) ==
  LET b0 == bytes[1]
      n  == Len(bytes)
      In(i, lo, hi) == n >= i /\ bytes[i] >= lo /\ bytes[i] <= hi
  IN  IF b0 < 128 THEN 1
      ELSE IF b0 >= 194 /\ b0 <= 223 THEN (IF In(2, 128, 191) THEN 2 ELSE 0)
      ELSE IF b0 = 224 THEN (IF In(2, 160, 191) /\ In(3, 128, 191) THEN 3 ELSE 0)
      ELSE IF (b0 >= 225 /\ b0 <= 236) \/ b0 = 238 \/ b0 = 239
        THEN (IF In(2, 128, 191) /\ In(3, 128, 191) THEN 3 ELSE 0)
      ELSE IF b0 = 237 THEN (IF In(2, 128, 159) /\ In(3, 128, 191) THEN 3 ELSE 0)
      ELSE IF b0 = 240
        THEN (IF In(2, 144, 191) /\ In(3, 128, 191) /\ In(4, 128, 191) THEN 4 ELSE 0)
      ELSE IF b0 >= 241 /\ b0 <= 243
        THEN (IF In(2, 128, 191) /\ In(3, 128, 191) /\ In(4, 128, 191) THEN 4 ELSE 0)
      ELSE IF b0 = 244
        THEN (IF In(2, 128, 143) /\ In(3, 128, 191) /\ In(4, 128, 191) THEN 4 ELSE 0)
      ELSE 0

DecodeChar(bytes, w) ==
  IF w = 1 THEN bytes[1]
  ELSE IF w = 2 THEN (bytes[1] - 192) * 64 + (bytes[2] - 128)
  ELSE IF w = 3
    THEN (bytes[1] - 224) * 4096 + (bytes[2] - 128) * 64 + (bytes[3] - 128)
  ELSE (bytes[1] - 240) * 262144 + (bytes[2] - 128) * 4096
         + (bytes[3] - 128) * 64 + (bytes[4] - 128)

\* variant: the bytes are taken as text without validation
from_utf8_lossy(bytes) == [ok |-> TRUE, text |-> bytes]

\* String::from_utf8: Ok(text) when the bytes are well-formed UTF-8, Err otherwise
RECURSIVE from_utf8(_)
from_utf8(bytes) ==
  IF bytes = << >> THEN [ok |-> TRUE, text |-> << >>]
  ELSE LET w == Utf8Width(bytes)
       IN  IF w = 0 THEN [ok |-> FALSE, text |-> << >>]
           ELSE LET rest == from_utf8(SubSeq(bytes, w + 1, Len(bytes)))
                IN  IF rest.ok
                      THEN [ok |-> TRUE, text |-> <<DecodeChar(bytes, w)>> \o rest.text]
                      ELSE [ok |-> FALSE, text |-> << >>]


\* ------------------------------------------------------------------- state
VARIABLES
  op,          \* the public operation invoked
  flags,       \* Flags: watch configuration, permission options, argv
  eval_flags,  \* EvalFlags of eval_command
  pc,          \* position of the invocation in its function body
  result,      \* what the operation returned to its caller
  warnings,    \* advisory warnings logged
  main_module, \* the entry specifier resolve_main_module returned
  stdin_buf,   \* `source`: the bytes read from standard input
  cache,       \* file fetcher cache: specifier -> inserted File
  grants,      \* every PermissionsContainer built: [id, perms, owner]
  workers,     \* every worker created: [id, entry, grant, owner, runs]
  ran,         \* what the worker's run() returned, once it has
  resolves,    \* calls of resolve_main_module
  chan,        \* change channel: messages sent and not yet received
  sent,        \* change notifications sent so far
  closed,      \* every sender of the change channel has been dropped
  sup,         \* state of the watch supervisor
  sup_result,  \* what watch_func2 returned
  ps_resets,   \* calls of ps.reset_for_file_watcher()
  builds,      \* invocations of the `operation` closure
  attempt,     \* the attempt the supervisor is driving
  cancelled,   \* attempts dropped by the supervisor and not yet drained
  reports,     \* attempt errors the supervisor has reported
  finished     \* the attempts whose future resolved: [id, outcome]

vars == <<op, flags, eval_flags, pc, result, warnings, main_module, stdin_buf,
          cache, grants, workers, ran, resolves, chan, sent, closed, sup,
          sup_result, ps_resets, builds, attempt, cancelled, reports, finished>>

invocation_vars == <<op, flags, eval_flags>>
watch_vars == <<chan, sent, closed, sup, sup_result, ps_resets, builds,
                attempt, cancelled, reports, finished>>

Operations == {"run_script", "run_from_stdin", "eval_command"}

NoResult == [kind |-> "none", code |-> 0, err |-> "none"]
Ok(c) == [kind |-> "ok", code |-> c, err |-> "none"]
Err(e) == [kind |-> "err", code |-> 0, err |-> e]

NoModule == "unresolved"
NoFile == [media_type |-> "none", source |-> << >>]
NoAttempt == [id |-> 0, ps |-> 0, entry |-> NoModule, grant |-> 0,
              worker |-> 0, at |-> "none"]
NoRun == [called |-> FALSE, kind |-> "none", code |-> 0]

\* the specifier resolve_main_module yields for each kind of program source
ResolvedSpecifier(o) ==
  IF o = "run_from_stdin" THEN "file:///$deno$stdin.ts"
  ELSE IF o = "eval_command" THEN "file:///$deno$eval"
  ELSE "file:///main.ts"

Specifiers == {ResolvedSpecifier(o) : o \in Operations}

Init ==
  /\ op \in Operations
  /\ flags \in FlagsDomain
  /\ eval_flags \in (IF op = "eval_command" THEN EvalFlagsDomain ELSE {NoEvalFlags})
  /\ pc = "entry"
  /\ result = NoResult
  /\ warnings = 0
  /\ main_module = NoModule
  /\ stdin_buf = << >>
  /\ cache = [s \in Specifiers |-> NoFile]
  /\ grants = {}
  /\ workers = {}
  /\ ran = NoRun
  /\ resolves = 0
  /\ chan = 0
  /\ sent = 0
  /\ closed = FALSE
  /\ sup = "NotStarted"
  /\ sup_result = "none"
  /\ ps_resets = 0
  /\ builds = 0
  /\ attempt = NoAttempt
  /\ cancelled = {}
  /\ reports = 0
  /\ finished = {}

\* ------------------------------------------------------- flags, permissions
\* Flags::has_permission: some permission option was parsed
has_permission(f) == f.perms # {}

PermissionFlagTokens == {"--allow-read", "--allow-net", "--allow-all"}

\* Flags::has_permission_in_argv: a permission flag follows the script argument
has_permission_in_argv(f) ==
  \E i \in 1..Len(f.argv) : f.argv[i] \in PermissionFlagTokens

\* Options::permissions_options: only what was parsed before the script
permissions_options(f) == f.perms

\* Permissions::from_options: Ok(permissions) or an error for invalid options
from_options(opts) ==
  IF "net_invalid" \in opts THEN [ok |-> FALSE, perms |-> {}]
  ELSE [ok |-> TRUE, perms |-> opts]

\* variant: a container built earlier is handed out again
PermissionsContainer_cached(built) ==
  IF built = {} THEN 1 ELSE (CHOOSE g \in built : TRUE).id

\* PermissionsContainer::new: a container that did not exist before
PermissionsContainer_new(built) == Cardinality({g.id : g \in built}) + 1

\* create_main_worker: a worker that did not exist before
NewWorkerId(created) == Cardinality(created) + 1


\* ------------------------------------------------- steps shared by the paths
Return(r) == pc' = "done" /\ result' = r

\* the invocation's own (non-watch) attempt
OwnAttempt == 1

\* ProcState::from_flags(flags).await?
FromFlags(here, next) ==
  /\ pc = here
  /\ \E ok \in BOOLEAN :
       IF ok THEN pc' = next /\ result' = result
       ELSE Return(Err("ProcStateError"))
  /\ UNCHANGED <<invocation_vars, warnings, main_module, stdin_buf, cache,
                 grants, workers, ran, resolves, watch_vars>>

\* ps.options.resolve_main_module()?
ResolveMainModule(here, next) ==
  /\ pc = here
  /\ resolves' = resolves + 1
  /\ \E ok \in BOOLEAN :
       IF ok THEN /\ main_module' = ResolvedSpecifier(op)
                  /\ pc' = next
                  /\ result' = result
       ELSE /\ Return(Err("ResolutionError"))
            /\ main_module' = main_module
  /\ UNCHANGED <<invocation_vars, warnings, stdin_buf, cache, grants, workers,
                 ran, chan, sent, closed, sup_result, ps_resets, builds,
                 attempt, cancelled, reports, finished>>

\* variant: invalid options fall back to an empty grant instead of failing
BuildPermissions_Swallow(here, next) ==
  /\ pc = here
  /\ grants' = grants \cup
       {[id |-> PermissionsContainer_new(grants),
         perms |-> from_options(permissions_options(flags)).perms,
         owner |-> 1]}
  /\ pc' = next
  /\ result' = result
  /\ UNCHANGED <<invocation_vars, warnings, main_module, stdin_buf, cache,
                 workers, ran, resolves, watch_vars>>

\* PermissionsContainer::new(Permissions::from_options(&permissions_options)?)
BuildPermissions(here, next) ==
  /\ pc = here
  /\ LET p == from_options(permissions_options(flags))
     IN  IF p.ok
           THEN /\ grants' = grants \cup
                     {[id |-> PermissionsContainer_new(grants),
                       perms |-> p.perms, owner |-> OwnAttempt]}
                /\ pc' = next
                /\ result' = result
           ELSE /\ Return(Err("ConfigError"))
                /\ grants' = grants
  /\ UNCHANGED <<invocation_vars, warnings, main_module, stdin_buf, cache,
                 workers, ran, resolves, watch_vars>>

\* the grant the invocation's own attempt built
OwnGrant == (CHOOSE g \in grants : g.owner = OwnAttempt).id

\* worker_factory.create_main_worker(main_module, permissions).await?
CreateMainWorker(here, next) ==
  /\ pc = here
  /\ \E ok \in BOOLEAN :
       IF ok THEN /\ workers' = workers \cup
                       {[id |-> NewWorkerId(workers), entry |-> main_module,
                         grant |-> OwnGrant, owner |-> OwnAttempt, runs |-> 0]}
                  /\ pc' = next
                  /\ result' = result
       ELSE /\ Return(Err("CreationError"))
            /\ workers' = workers
  /\ UNCHANGED <<invocation_vars, warnings, main_module, stdin_buf, cache,
                 grants, ran, resolves, watch_vars>>

\* variant: the exit code is reduced to success or failure
ExitCodeResult_Clamped(outcome) ==
  IF outcome.kind = "ok" THEN Ok(IF outcome.code = 0 THEN 0 ELSE 1)
  ELSE Err("RuntimeError")

\* let exit_code = worker.run().await?; Ok(exit_code)
ExitCodeResult(outcome) ==
  IF outcome.kind = "ok" THEN Ok(outcome.code) ELSE Err("RuntimeError")

\* variant: a failed run is tried again on the same worker
WorkerRun_RetryOnError(here) ==
  /\ pc = here
  /\ \E w \in workers :
       /\ w.owner = OwnAttempt
       /\ workers' = (workers \ {w}) \cup {[w EXCEPT !.runs = w.runs + 1]}
  /\ \E outcome \in [called : {TRUE}, kind : {"ok"}, code : ExitCodes]
                    \cup {[called |-> TRUE, kind |-> "err", code |-> 0]} :
       /\ ran' = outcome
       /\ IF outcome.kind = "ok"
            THEN Return(ExitCodeResult(outcome))
            ELSE UNCHANGED <<pc, result>>
  /\ UNCHANGED <<invocation_vars, warnings, main_module, stdin_buf, cache,
                 grants, resolves, watch_vars>>

WorkerRun(here) ==
  /\ pc = here
  /\ \E w \in workers :
       /\ w.owner = OwnAttempt
       /\ workers' = (workers \ {w}) \cup {[w EXCEPT !.runs = w.runs + 1]}
  /\ \E outcome \in [called : {TRUE}, kind : {"ok"}, code : ExitCodes]
                    \cup {[called |-> TRUE, kind |-> "err", code |-> 0]} :
       /\ ran' = outcome
       /\ Return(ExitCodeResult(outcome))
  /\ UNCHANGED <<invocation_vars, warnings, main_module, stdin_buf, cache,
                 grants, resolves, watch_vars>>


\* -------------------------------------------------------------- run_script
\* variant: the watch configuration is not consulted
UsesWatch_Never(f) == FALSE

\* flags.watch.is_some()
UsesWatch(f) == f.watch

\* variant: the test of has_permission is not negated
MisplacedPermissionFlags_NotNegated(f) ==
  has_permission(f) /\ has_permission_in_argv(f)

\* !flags.has_permission() && flags.has_permission_in_argv()
MisplacedPermissionFlags(f) == ~has_permission(f) /\ has_permission_in_argv(f)

\* variant: misplaced permission flags are treated as an error after the warning
RunScript_Entry_WarnFails ==
  /\ pc = "entry"
  /\ op = "run_script"
  /\ warnings' = IF MisplacedPermissionFlags(flags) THEN warnings + 1 ELSE warnings
  /\ IF MisplacedPermissionFlags(flags)
       THEN Return(Err("ConfigError"))
       ELSE /\ pc' = IF UsesWatch(flags) THEN "rww_from_flags" ELSE "rs_from_flags"
            /\ result' = result
  /\ UNCHANGED <<invocation_vars, main_module, stdin_buf, cache,
                 grants, workers, ran, resolves, watch_vars>>

\* the warning, then the choice between the watch loop and a single run
RunScript_Entry ==
  /\ pc = "entry"
  /\ op = "run_script"
  /\ warnings' = IF MisplacedPermissionFlags(flags) THEN warnings + 1 ELSE warnings
  /\ pc' = IF UsesWatch(flags) THEN "rww_from_flags" ELSE "rs_from_flags"
  /\ UNCHANGED <<invocation_vars, result, main_module, stdin_buf, cache,
                 grants, workers, ran, resolves, watch_vars>>

RunScript_FromFlags ==
  op = "run_script" /\ FromFlags("rs_from_flags", "rs_resolve")

RunScript_Resolve ==
  ResolveMainModule("rs_resolve", "rs_perms") /\ UNCHANGED sup

RunScript_Permissions ==
  op = "run_script" /\ BuildPermissions("rs_perms", "rs_create")

RunScript_CreateWorker ==
  op = "run_script" /\ CreateMainWorker("rs_create", "rs_run")

RunScript_Run ==
  op = "run_script" /\ WorkerRun("rs_run")

\* ---------------------------------------------------------- run_from_stdin
\* variant: a stdin run with a watch configuration is handed to the watch loop
RunFromStdin_FromFlags_Watchable ==
  /\ op = "run_from_stdin"
  /\ pc = "entry"
  /\ pc' = IF flags.watch THEN "rww_from_flags" ELSE "si_resolve"
  /\ UNCHANGED <<invocation_vars, result, warnings, main_module, stdin_buf,
                 cache, grants, workers, ran, resolves, watch_vars>>

RunFromStdin_FromFlags ==
  op = "run_from_stdin" /\ FromFlags("entry", "si_resolve")

RunFromStdin_Resolve ==
  ResolveMainModule("si_resolve", "si_perms") /\ UNCHANGED sup

RunFromStdin_Permissions ==
  op = "run_from_stdin" /\ BuildPermissions("si_perms", "si_read")

\* std::io::stdin().read_to_end(&mut source)?
RunFromStdin_Read ==
  /\ pc = "si_read"
  /\ \/ \E bytes \in SeqsUpTo(StdinBytes, MaxStdinLen) :
          /\ stdin_buf' = bytes
          /\ pc' = "si_file"
          /\ result' = result
     \/ /\ Return(Err("IoError"))
        /\ stdin_buf' = stdin_buf
  /\ UNCHANGED <<invocation_vars, warnings, main_module, cache, grants,
                 workers, ran, resolves, watch_vars>>

\* the dummy source file of a stdin run; its text is String::from_utf8(source)?
StdinFile(decoded) == [media_type |-> "TypeScript", source |-> decoded.text]

\* variant: the file is built but never inserted in the cache
RunFromStdin_InsertFile_Skipped ==
  /\ pc = "si_file"
  /\ LET decoded == from_utf8(stdin_buf)
     IN  IF decoded.ok
           THEN pc' = "si_create" /\ result' = result
           ELSE Return(Err("DecodeError"))
  /\ UNCHANGED <<invocation_vars, warnings, main_module, stdin_buf, grants,
                 workers, ran, resolves, watch_vars, cache>>

\* build the File (decoding the bytes) and insert it in the file fetcher cache
RunFromStdin_InsertFile ==
  /\ pc = "si_file"
  /\ LET decoded == from_utf8(stdin_buf)
     IN  IF decoded.ok
           THEN /\ cache' = [cache EXCEPT ![main_module] = StdinFile(decoded)]
                /\ pc' = "si_create"
                /\ result' = result
           ELSE /\ Return(Err("DecodeError"))
                /\ cache' = cache
  /\ UNCHANGED <<invocation_vars, warnings, main_module, stdin_buf, grants,
                 workers, ran, resolves, watch_vars>>

RunFromStdin_CreateWorker ==
  op = "run_from_stdin" /\ CreateMainWorker("si_create", "si_run")

RunFromStdin_Run ==
  op = "run_from_stdin" /\ WorkerRun("si_run")

\* ------------------------------------------------------------ eval_command
EvalCommand_FromFlags ==
  op = "eval_command" /\ FromFlags("entry", "ev_resolve")

EvalCommand_Resolve ==
  ResolveMainModule("ev_resolve", "ev_perms") /\ UNCHANGED sup

EvalCommand_Permissions ==
  op = "eval_command" /\ BuildPermissions("ev_perms", "ev_file")

\* the text "console.log("
ConsoleLogOpen == <<99, 111, 110, 115, 111, 108, 101, 46, 108, 111, 103, 40>>
\* the text ")"
ConsoleLogClose == <<41>>

\* variant: the closing parenthesis is left out
FormatConsoleLog_Unclosed(code) == ConsoleLogOpen \o code

\* format!("console.log({})", code)
FormatConsoleLog(code) == ConsoleLogOpen \o code \o ConsoleLogClose

\* source_code: the bytes of the (possibly wrapped) inline code
EvalSourceCode(ef) ==
  into_bytes(IF ef.print THEN FormatConsoleLog(ef.code) ELSE ef.code)

\* the dummy source file of an eval run
EvalFile(decoded) == [media_type |-> "Unknown", source |-> decoded.text]

EvalCommand_InsertFile ==
  /\ pc = "ev_file"
  /\ LET decoded == from_utf8(EvalSourceCode(eval_flags))
     IN  IF decoded.ok
           THEN /\ cache' = [cache EXCEPT ![main_module] = EvalFile(decoded)]
                /\ pc' = "ev_create"
                /\ result' = result
           ELSE /\ Return(Err("DecodeError"))
                /\ cache' = cache
  /\ UNCHANGED <<invocation_vars, warnings, main_module, stdin_buf, grants,
                 workers, ran, resolves, watch_vars>>

EvalCommand_CreateWorker ==
  op = "eval_command" /\ CreateMainWorker("ev_create", "ev_run")

EvalCommand_Run ==
  op = "eval_command" /\ WorkerRun("ev_run")


\* ---------------------------------------------------------- run_with_watch
\* the channel is created, then ProcState::from_flags_for_file_watcher
RunWithWatch_FromFlags ==
  op = "run_script" /\ FromFlags("rww_from_flags", "rww_resolve")

\* variant: a failed resolution is not propagated and the loop is entered anyway
RunWithWatch_Resolve_Swallowed ==
  /\ pc = "rww_resolve"
  /\ resolves' = resolves + 1
  /\ \E ok \in BOOLEAN :
       main_module' = IF ok THEN ResolvedSpecifier(op) ELSE main_module
  /\ pc' = "rww_watch"
  /\ sup' = "Idle"
  /\ UNCHANGED <<invocation_vars, result, warnings, stdin_buf, cache, grants,
                 workers, ran, chan, sent, closed, sup_result, ps_resets,
                 builds, attempt, cancelled, reports, finished>>

\* resolve the entry point, then hand the closure to watch_func2
RunWithWatch_Resolve ==
  /\ ResolveMainModule("rww_resolve", "rww_watch")
  /\ sup' = IF pc' = "rww_watch" THEN "Idle" ELSE sup

\* variant: the closure builds the permissions itself and fails when they do
operation_EagerPermissions(mm, resets, n) ==
  [ok |-> from_options(permissions_options(flags)).ok,
   ps_resets |-> resets + 1,
   future |-> [id |-> n, ps |-> resets + 1, entry |-> mm, grant |-> 0,
               worker |-> 0, at |-> "perms"]]

\* variant: ps is cloned before its watcher state is reset
operation_CloneBeforeReset(mm, resets, n) ==
  [ok |-> TRUE,
   ps_resets |-> resets + 1,
   future |-> [id |-> n, ps |-> resets, entry |-> mm, grant |-> 0,
               worker |-> 0, at |-> "perms"]]

\* variant: attempts after the first take another entry point
operation_OtherEntry(mm, resets, n) ==
  [ok |-> TRUE,
   ps_resets |-> resets + 1,
   future |-> [id |-> n, ps |-> resets + 1,
               entry |-> IF n > 1 THEN ResolvedSpecifier("run_from_stdin") ELSE mm,
               grant |-> 0, worker |-> 0, at |-> "perms"]]

\* the `operation` closure: reset the watcher state of ps, clone ps and
\* return Ok(future); nothing of the future's body has run yet
operation(mm, resets, n) ==
  [ok |-> TRUE,
   ps_resets |-> resets + 1,
   future |-> [id |-> n, ps |-> resets + 1, entry |-> mm, grant |-> 0,
               worker |-> 0, at |-> "perms"]]

\* the supervisor sees the attempt's future resolve: the attempt is over, an
\* error is reported, and the supervisor waits for the next change
WatchFunc_Resolved(outcome) ==
  /\ sup' = "Completed"
  /\ reports' = IF outcome = "ok" THEN reports ELSE reports + 1
  /\ finished' = finished \cup {[id |-> attempt.id, outcome |-> outcome]}

\* the supervisor keeps polling the attempt's future
WatchFunc_Pending == UNCHANGED <<sup, reports, finished>>

\* the future is being polled by the supervisor
Polled == pc = "rww_watch" /\ sup = "Running"

\* future body: build the permissions of this attempt
Operation_Permissions ==
  /\ Polled
  /\ attempt.at = "perms"
  /\ LET p == from_options(permissions_options(flags))
         g == PermissionsContainer_new(grants)
     IN  IF p.ok
           THEN /\ grants' = grants \cup
                     {[id |-> g, perms |-> p.perms, owner |-> attempt.id]}
                /\ attempt' = [attempt EXCEPT !.grant = g, !.at = "create"]
                /\ WatchFunc_Pending
           ELSE /\ grants' = grants
                /\ attempt' = [attempt EXCEPT !.at = "ConfigError"]
                /\ WatchFunc_Resolved("ConfigError")
  /\ UNCHANGED <<invocation_vars, pc, result, warnings, main_module, stdin_buf,
                 cache, workers, ran, resolves, chan, sent, closed,
                 sup_result, ps_resets, builds, cancelled>>

\* variant: the worker may be created before the permissions are built
Operation_CreateWorker_Early ==
  /\ Polled
  /\ attempt.at \in {"perms", "create"}
  /\ \E ok \in BOOLEAN :
       IF ok
         THEN LET w == NewWorkerId(workers)
              IN  /\ workers' = workers \cup
                        {[id |-> w, entry |-> attempt.entry,
                          grant |-> attempt.grant, owner |-> attempt.id,
                          runs |-> 0]}
                  /\ attempt' = [attempt EXCEPT !.worker = w, !.at = "run"]
                  /\ WatchFunc_Pending
         ELSE /\ workers' = workers
              /\ attempt' = [attempt EXCEPT !.at = "CreationError"]
              /\ WatchFunc_Resolved("CreationError")
  /\ UNCHANGED <<invocation_vars, pc, result, warnings, main_module, stdin_buf,
                 cache, grants, ran, resolves, chan, sent, closed,
                 sup_result, ps_resets, builds, cancelled>>

\* future body: create the worker of this attempt
Operation_CreateWorker ==
  /\ Polled
  /\ attempt.at = "create"
  /\ \E ok \in BOOLEAN :
       IF ok
         THEN LET w == NewWorkerId(workers)
              IN  /\ workers' = workers \cup
                        {[id |-> w, entry |-> attempt.entry,
                          grant |-> attempt.grant, owner |-> attempt.id,
                          runs |-> 0]}
                  /\ attempt' = [attempt EXCEPT !.worker = w, !.at = "run"]
                  /\ WatchFunc_Pending
         ELSE /\ workers' = workers
              /\ attempt' = [attempt EXCEPT !.at = "CreationError"]
              /\ WatchFunc_Resolved("CreationError")
  /\ UNCHANGED <<invocation_vars, pc, result, warnings, main_module, stdin_buf,
                 cache, grants, ran, resolves, chan, sent, closed,
                 sup_result, ps_resets, builds, cancelled>>

\* variant: a failing run takes the supervisor down with it
Operation_RunForWatcher_Fatal ==
  /\ Polled
  /\ attempt.at = "run"
  /\ \E w \in workers :
       /\ w.id = attempt.worker
       /\ workers' = (workers \ {w}) \cup {[w EXCEPT !.runs = w.runs + 1]}
  /\ \E outcome \in {"ok", "RuntimeError"} :
       /\ attempt' = [attempt EXCEPT !.at = outcome]
       /\ IF outcome = "ok"
            THEN WatchFunc_Resolved(outcome) /\ sup_result' = sup_result
            ELSE /\ sup' = "Fatal"
                 /\ sup_result' = "err"
                 /\ UNCHANGED <<reports, finished>>
  /\ UNCHANGED <<invocation_vars, pc, result, warnings, main_module, stdin_buf,
                 cache, grants, ran, resolves, chan, sent, closed,
                 ps_resets, builds, cancelled>>

\* variant: a run that completes normally starts the next attempt by itself
Operation_RunForWatcher_Rerun ==
  /\ Polled
  /\ attempt.at = "run"
  /\ \E w \in workers :
       /\ w.id = attempt.worker
       /\ workers' = (workers \ {w}) \cup {[w EXCEPT !.runs = w.runs + 1]}
  /\ \E outcome \in {"ok", "RuntimeError"} :
       IF outcome = "ok"
         THEN LET r == operation(main_module, ps_resets, builds + 1)
              IN  /\ attempt' = r.future
                  /\ ps_resets' = r.ps_resets
                  /\ builds' = builds + 1
                  /\ finished' = finished \cup {[id |-> attempt.id, outcome |-> "ok"]}
                  /\ UNCHANGED <<sup, reports>>
         ELSE /\ attempt' = [attempt EXCEPT !.at = outcome]
              /\ WatchFunc_Resolved(outcome)
              /\ UNCHANGED <<ps_resets, builds>>
  /\ UNCHANGED <<invocation_vars, pc, result, warnings, main_module, stdin_buf,
                 cache, grants, ran, resolves, chan, sent, closed,
                 sup_result, cancelled>>

\* future body: worker.run_for_watcher().await?; Ok(())
Operation_RunForWatcher ==
  /\ Polled
  /\ attempt.at = "run"
  /\ \E w \in workers :
       /\ w.id = attempt.worker
       /\ workers' = (workers \ {w}) \cup {[w EXCEPT !.runs = w.runs + 1]}
  /\ \E outcome \in {"ok", "RuntimeError"} :
       /\ attempt' = [attempt EXCEPT !.at = outcome]
       /\ WatchFunc_Resolved(outcome)
  /\ UNCHANGED <<invocation_vars, pc, result, warnings, main_module, stdin_buf,
                 cache, grants, ran, resolves, chan, sent, closed,
                 sup_result, ps_resets, builds, cancelled>>

\* variant: the supervisor's error is dropped and 0 is returned regardless
WatchResult_ErrorDropped(r) == Ok(0)

\* watch_func2(...).await?; Ok(0)
WatchResult(r) == IF r = "err" THEN Err("WatchError") ELSE Ok(0)

RunWithWatch_Return ==
  /\ pc = "rww_watch"
  /\ sup_result # "none"
  /\ Return(WatchResult(sup_result))
  /\ UNCHANGED <<invocation_vars, warnings, main_module, stdin_buf, cache,
                 grants, workers, ran, resolves, watch_vars>>

\* ------------------------------------------- watch_func2, the watch supervisor
\* Idle or ChangeDetected -> BuildingOperation: invoke the factory
WatchFunc_Build ==
  /\ pc = "rww_watch"
  /\ sup \in {"Idle", "ChangeDetected"}
  /\ builds' = builds + 1
  /\ LET r == operation(main_module, ps_resets, builds + 1)
     IN  /\ ps_resets' = r.ps_resets
         /\ IF r.ok
              THEN /\ attempt' = r.future
                   /\ sup' = "BuildingOperation"
                   /\ sup_result' = sup_result
              ELSE /\ attempt' = NoAttempt
                   /\ sup' = "Fatal"
                   /\ sup_result' = "err"
  /\ UNCHANGED <<invocation_vars, pc, result, warnings, main_module, stdin_buf,
                 cache, grants, workers, ran, resolves, chan, sent, closed,
                 cancelled, reports, finished>>

\* BuildingOperation -> Running: start driving the attempt
WatchFunc_BeginRun ==
  /\ pc = "rww_watch"
  /\ sup = "BuildingOperation"
  /\ sup' = "Running"
  /\ UNCHANGED <<invocation_vars, pc, result, warnings, main_module, stdin_buf,
                 cache, grants, workers, ran, resolves, chan, sent, closed,
                 sup_result, ps_resets, builds, attempt, cancelled, reports,
                 finished>>

\* variant: on a change the supervisor first awaits the attempt in flight
WatchFunc_Change_Awaits ==
  /\ pc = "rww_watch"
  /\ sup \in {"Running", "Completed"}
  /\ chan > 0
  /\ chan' = chan - 1
  /\ finished' = IF sup = "Running"
                   THEN finished \cup {[id |-> attempt.id, outcome |-> "ok"]}
                   ELSE finished
  /\ attempt' = NoAttempt
  /\ sup' = "ChangeDetected"
  /\ UNCHANGED <<invocation_vars, pc, result, warnings, main_module, stdin_buf,
                 cache, grants, workers, ran, resolves, sent, closed,
                 sup_result, ps_resets, builds, reports, cancelled>>

\* Running or Completed -> ChangeDetected: a change notification is received;
\* an attempt still in flight is dropped without being awaited
WatchFunc_Change ==
  /\ pc = "rww_watch"
  /\ sup \in {"Running", "Completed"}
  /\ chan > 0
  /\ chan' = chan - 1
  /\ cancelled' = IF sup = "Running" THEN cancelled \cup {attempt} ELSE cancelled
  /\ attempt' = NoAttempt
  /\ sup' = "ChangeDetected"
  /\ UNCHANGED <<invocation_vars, pc, result, warnings, main_module, stdin_buf,
                 cache, grants, workers, ran, resolves, sent, closed,
                 sup_result, ps_resets, builds, reports, finished>>

\* Running or Completed -> Fatal: the channel is closed and empty
WatchFunc_Closed ==
  /\ pc = "rww_watch"
  /\ sup \in {"Running", "Completed"}
  /\ chan = 0
  /\ closed
  /\ cancelled' = IF sup = "Running" THEN cancelled \cup {attempt} ELSE cancelled
  /\ attempt' = NoAttempt
  /\ sup' = "Fatal"
  /\ sup_result' = "err"
  /\ UNCHANGED <<invocation_vars, pc, result, warnings, main_module, stdin_buf,
                 cache, grants, workers, ran, resolves, chan, sent, closed,
                 ps_resets, builds, reports, finished>>

\* a dropped attempt finishes releasing what it held
WatchFunc_Drained ==
  /\ \E a \in cancelled : cancelled' = cancelled \ {a}
  /\ UNCHANGED <<invocation_vars, pc, result, warnings, main_module, stdin_buf,
                 cache, grants, workers, ran, resolves, chan, sent, closed, sup,
                 sup_result, ps_resets, builds, attempt, reports, finished>>

\* --------------------------------------------------- the change notifier
ChannelOpen == pc \in {"rww_resolve", "rww_watch"} /\ ~closed

\* a change notification is sent on the channel
Notifier_Send ==
  /\ ChannelOpen
  /\ sent < MaxChanges
  /\ chan' = chan + 1
  /\ sent' = sent + 1
  /\ UNCHANGED <<invocation_vars, pc, result, warnings, main_module, stdin_buf,
                 cache, grants, workers, ran, resolves, closed, sup, sup_result,
                 ps_resets, builds, attempt, cancelled, reports, finished>>

\* the channel is closed
Notifier_Close ==
  /\ ChannelOpen
  /\ closed' = TRUE
  /\ UNCHANGED <<invocation_vars, pc, result, warnings, main_module, stdin_buf,
                 cache, grants, workers, ran, resolves, chan, sent, sup,
                 sup_result, ps_resets, builds, attempt, cancelled, reports,
                 finished>>

\* ----------------------------------------------------------- specification
Next ==
  \/ RunScript_Entry
  \/ RunScript_FromFlags
  \/ RunScript_Resolve
  \/ RunScript_Permissions
  \/ RunScript_CreateWorker
  \/ RunScript_Run
  \/ RunFromStdin_FromFlags
  \/ RunFromStdin_Resolve
  \/ RunFromStdin_Permissions
  \/ RunFromStdin_Read
  \/ RunFromStdin_InsertFile
  \/ RunFromStdin_CreateWorker
  \/ RunFromStdin_Run
  \/ EvalCommand_FromFlags
  \/ EvalCommand_Resolve
  \/ EvalCommand_Permissions
  \/ EvalCommand_InsertFile
  \/ EvalCommand_CreateWorker
  \/ EvalCommand_Run
  \/ RunWithWatch_FromFlags
  \/ RunWithWatch_Resolve
  \/ Operation_Permissions
  \/ Operation_CreateWorker
  \/ Operation_RunForWatcher
  \/ RunWithWatch_Return
  \/ WatchFunc_Build
  \/ WatchFunc_BeginRun
  \/ WatchFunc_Change
  \/ WatchFunc_Closed
  \/ WatchFunc_Drained
  \/ Notifier_Send
  \/ Notifier_Close

Spec == Init /\ [][Next]_vars


\* ------------------------------------------------------------------ claims
NonWatchInvocation == op # "run_script" \/ ~flags.watch

\* C1: in every non-watch invocation (run_script without a watch
\* configuration, run_from_stdin, eval_command), once the worker's run() has
\* returned exit code c the operation has returned exactly Ok(c) to its
\* caller, for zero and non-zero c alike.
C1_ExitCodeVerbatim ==
  (ran.called /\ ran.kind = "ok") =>
    /\ NonWatchInvocation
    /\ pc = "done"
    /\ result.kind = "ok"
    /\ result.code = ran.code

C1_Witness ==
  /\ op = "run_from_stdin"
  /\ ran.called /\ ran.kind = "ok" /\ ran.code = 256
  /\ result.kind = "ok"

WatchPositions == {"entry", "rww_from_flags", "rww_resolve", "rww_watch", "done"}

\* C2: run_script with a watch configuration delegates entirely to the watch
\* supervisor: it never takes a step of the single-run path, never calls
\* worker.run(), and a success value it returns is 0 whatever the outcomes of
\* the attempts run in the loop.
C2_WatchReturnsZero ==
  (op = "run_script" /\ flags.watch) =>
    /\ pc \in WatchPositions
    /\ ~ran.called
    /\ \A w \in workers : w.owner \in 1..builds
    /\ result.kind = "ok" => result.code = 0
    /\ \A r \in {"ok", "err"} :
         WatchResult(r).kind = "ok" => WatchResult(r).code = 0

C2_Witness ==
  /\ op = "run_script" /\ flags.watch
  /\ pc = "done"
  /\ \E f \in finished : f.outcome = "RuntimeError"
  /\ \E f \in finished : f.outcome = "ok"

\* a build the supervisor owes: the initial one or the one for a change it
\* has just received
BuildDue == IF sup \in {"Idle", "ChangeDetected"} THEN 1 ELSE 0

\* C3: in watch mode the supervisor stops only once the change channel is
\* closed and drained, and by then the build operation has been invoked at
\* least once per change notification sent plus once initially; while it
\* runs, every notification sent is either still queued, about to be built
\* for, or already built for, however many arrive during one attempt.
C3_BuildPerChange ==
  /\ sup = "Fatal" => (closed /\ chan = 0 /\ builds >= sent + 1)
  /\ sup # "NotStarted" => builds + BuildDue + chan >= sent + 1

C3_Witness ==
  /\ sup = "Fatal"
  /\ sent >= 2
  /\ builds >= sent + 1

\* C4: in watch mode every attempt builds its own permission grant: no grant
\* is held by two attempts, and the attempt being driven never has the grant
\* of an attempt that was cancelled and has not finished draining.
C4_FreshGrantPerAttempt ==
  /\ \A g1, g2 \in grants : g1.id = g2.id => g1.owner = g2.owner
  /\ \A a, b \in cancelled \cup {attempt} :
       (a.id # b.id /\ a.grant # 0) => a.grant # b.grant

C4_Witness ==
  /\ attempt.grant # 0
  /\ \E a \in cancelled : a.grant # 0 /\ a.id < attempt.id

\* characters whose UTF-8 encoding uses only bytes of StdinBytes
StdinChars == {65, 233, 10857}

\* the bytes are the UTF-8 encoding of some text
IsUtf8Text(bytes) ==
  \E t \in SeqsUpTo(StdinChars, Len(bytes)) : into_bytes(t) = bytes

\* C5: in run_from_stdin, when the bytes read from standard input are not
\* valid UTF-8 text, the run fails with a decode error before any worker is
\* created: nothing is inserted in the source cache, no worker is created and
\* nothing is run.
C5_DecodeErrorBeforeWorker ==
  (op = "run_from_stdin" /\ pc \in {"si_create", "si_run", "done"}
     /\ stdin_buf # << >> /\ ~IsUtf8Text(stdin_buf)) =>
    /\ pc = "done"
    /\ result = Err("DecodeError")
    /\ cache = [s \in Specifiers |-> NoFile]
    /\ workers = {}
    /\ ~ran.called

C5_Witness ==
  /\ op = "run_from_stdin"
  /\ stdin_buf = <<65, 255>>
  /\ result = Err("DecodeError")
  /\ workers = {}


\* the text the eval run inserted in the source cache
EvalInjected == cache[ResolvedSpecifier("eval_command")].source

\* C6: for every inline code string C, eval_command with print = true injects
\* the text console.log(C), which is the text eval_command with print = false
\* injects when given the code console.log(C); with print = false the injected
\* text is C unchanged.
C6_PrintWrapsConsoleLog ==
  (op = "eval_command" /\ cache[ResolvedSpecifier("eval_command")] # NoFile) =>
    IF eval_flags.print
      THEN /\ EvalInjected = ConsoleLogOpen \o eval_flags.code \o ConsoleLogClose
           /\ EvalInjected =
                from_utf8(EvalSourceCode(
                  [print |-> FALSE,
                   code |-> ConsoleLogOpen \o eval_flags.code \o ConsoleLogClose])).text
      ELSE EvalInjected = eval_flags.code

C6_Witness ==
  /\ op = "eval_command"
  /\ eval_flags.print
  /\ eval_flags.code = <<49, 8364>>
  /\ EvalInjected # << >>
  /\ ran.called

\* no permission option was parsed and a permission flag follows the script
PermissionFlagAfterScript ==
  /\ flags.perms = {}
  /\ \E i \in DOMAIN flags.argv : flags.argv[i] = "--allow-read"

\* C7 as stated: all three public operations have emitted the advisory warning
\* by the time a session exists, whenever no permission flag is set and a
\* permission flag follows the program argument.
C7_Original ==
  (PermissionFlagAfterScript /\ workers # {}) => warnings >= 1

\* C7 as amended: run_script emits the advisory warning before it constructs
\* anything, whenever no permission flag is set and a permission flag follows
\* the program argument; run_from_stdin and eval_command never emit it.
C7_WarningOnlyInRunScript ==
  /\ (op = "run_script" /\ PermissionFlagAfterScript /\ pc # "entry") => warnings >= 1
  /\ (op = "run_script" /\ pc = "entry") => (grants = {} /\ workers = {} /\ builds = 0)
  /\ op # "run_script" => warnings = 0

C7_Witness ==
  /\ op = "run_script"
  /\ PermissionFlagAfterScript
  /\ workers # {}
  /\ warnings >= 1

\* C8: in run_script, misplaced permission flags trigger exactly one advisory
\* warning per invocation, restarts of the watch loop included, and the
\* warning is the only effect: the step that warns changes nothing but the
\* warning count and goes on exactly as it does without the warning, no later
\* step warns, and every grant is built from the permission options alone.
C8_WarningIsOnlyADiagnostic ==
  /\ []((op = "run_script" /\ PermissionFlagAfterScript /\ pc # "entry")
          => warnings = 1)
  /\ []((op = "run_script" /\ ~PermissionFlagAfterScript) => warnings = 0)
  /\ [](op = "run_script" => \A g \in grants : g.perms = flags.perms)
  /\ [][op = "run_script" =>
          IF pc = "entry"
            THEN /\ pc' = IF flags.watch THEN "rww_from_flags" ELSE "rs_from_flags"
                 /\ UNCHANGED <<invocation_vars, result, main_module, stdin_buf,
                                cache, grants, workers, ran, resolves, watch_vars>>
            ELSE warnings' = warnings]_vars

C8_Witness ==
  /\ op = "run_script"
  /\ flags.watch
  /\ PermissionFlagAfterScript
  /\ builds >= 2
  /\ workers # {}
  /\ warnings = 1

\* C9: in watch mode a runtime error of an attempt (run_for_watcher fails)
\* does not stop the supervisor: the error is reported, the supervisor waits,
\* leaves the wait only by receiving a change notification (or on a closed
\* channel), and after a change notification builds a new attempt.
C9_RuntimeErrorKeepsWatching ==
  [][/\ (attempt.at = "run" /\ attempt'.at = "RuntimeError") =>
          /\ sup' = "Completed"
          /\ reports' = reports + 1
          /\ sup_result' = "none"
          /\ pc' = "rww_watch"
          /\ result' = NoResult
     /\ (sup = "Completed" /\ sup' # "Completed") =>
          \/ chan > 0 /\ chan' = chan - 1 /\ sup' = "ChangeDetected"
          \/ closed /\ chan = 0 /\ sup' = "Fatal"
     /\ (sup = "ChangeDetected" /\ sup' # "ChangeDetected") =>
          /\ sup' = "BuildingOperation"
          /\ builds' = builds + 1
          /\ attempt'.id = builds'
          /\ attempt'.at = "perms"]_vars

C9_Witness ==
  /\ \E f \in finished : f.outcome = "RuntimeError" /\ f.id < attempt.id
  /\ sup = "Running"
  /\ reports >= 1

PermissionsFailed ==
  \/ result = Err("ConfigError")
  \/ \E f \in finished : f.outcome = "ConfigError"

WatchInvocation == op = "run_script" /\ flags.watch

\* C11: in watch mode a failure to resolve the entry point aborts the whole
\* invocation with that error: the supervisor is never entered, no attempt is
\* built or run, nothing is retried when a change notification is sent, and
\* the supervisor never runs without a resolved entry point.
C11_ResolutionFailureAbortsWatch ==
  /\ []((WatchInvocation /\ result = Err("ResolutionError")) =>
          /\ pc = "done"
          /\ sup = "NotStarted"
          /\ builds = 0
          /\ grants = {} /\ workers = {}
          /\ attempt = NoAttempt)
  /\ []((WatchInvocation /\ main_module = NoModule) =>
          (sup = "NotStarted" /\ builds = 0))
  /\ [][~(WatchInvocation /\ result = Err("ResolutionError"))]_vars

C11_Witness ==
  /\ WatchInvocation
  /\ result = Err("ResolutionError")
  /\ sent >= 1
  /\ chan >= 1
  /\ builds = 0


\* C12: the watch supervisor stops only when the change channel is closed (and
\* drained) or the factory fails to construct the next attempt, and Fatal is
\* its only terminal state: watch_func2 returns only from Fatal, always with
\* an error, and run_with_watch returns that error to its caller, never 0.
C12_OnlyFatalIsTerminal ==
  /\ [](sup_result # "none" <=> sup = "Fatal")
  /\ [](sup = "Fatal" => sup_result = "err")
  /\ []((WatchInvocation /\ pc = "done" /\ sup # "NotStarted") =>
          (sup = "Fatal" /\ result.kind = "err" /\ result # Ok(0)))
  /\ [][(sup # "Fatal" /\ sup' = "Fatal") =>
          \/ closed /\ chan = 0 /\ sup \in {"Running", "Completed"}
          \/ /\ sup \in {"Idle", "ChangeDetected"}
             /\ ~operation(main_module, ps_resets, builds + 1).ok]_vars
  /\ [][sup = "Fatal" => sup' = "Fatal"]_vars

C12_Witness ==
  /\ WatchInvocation
  /\ sup = "Fatal"
  /\ pc = "done"
  /\ result = Err("WatchError")
  /\ builds >= 2

SingleRunPositions(o) ==
  IF o = "run_from_stdin"
    THEN {"entry", "si_resolve", "si_perms", "si_read", "si_file", "si_create",
          "si_run", "done"}
    ELSE {"entry", "ev_resolve", "ev_perms", "ev_file", "ev_create", "ev_run",
          "done"}

\* C13: run_from_stdin and eval_command are never watchable: whatever the
\* flags, a watch configuration included, they never enter the watch loop or
\* its supervisor, and they build at most one grant, create at most one
\* worker and run it at most once.
C13_StdinAndEvalNeverWatch ==
  op \in {"run_from_stdin", "eval_command"} =>
    /\ pc \in SingleRunPositions(op)
    /\ sup = "NotStarted"
    /\ builds = 0 /\ ps_resets = 0 /\ attempt = NoAttempt
    /\ chan = 0 /\ sent = 0 /\ ~closed
    /\ Cardinality(grants) <= 1
    /\ Cardinality(workers) <= 1
    /\ \A w \in workers : w.runs <= 1

C13_Witness ==
  /\ op = "run_from_stdin"
  /\ flags.watch
  /\ ran.called
  /\ pc = "done"
  /\ \E w \in workers : w.runs = 1


\* every attempt the supervisor has built and not yet forgotten
LiveAttempts == {a \in cancelled \cup {attempt} : a.id # 0}

\* C14: within every execution attempt of every path, the permission grant is
\* built strictly before the worker is created and the worker strictly before
\* it is run: a new worker always carries a grant its attempt had already
\* built, a run always happens on a worker that already existed, and an
\* attempt that failed at one step has executed no later step.
C14_GrantThenWorkerThenRun ==
  /\ [](\A w \in workers :
          \E g \in grants : g.id = w.grant /\ g.owner = w.owner)
  /\ [](ran.called => \E w \in workers : w.owner = OwnAttempt /\ w.runs = 1)
  /\ [](\A a \in LiveAttempts :
          /\ a.at = "perms" => (a.grant = 0 /\ a.worker = 0)
          /\ a.at = "create" => (a.grant # 0 /\ a.worker = 0)
          /\ a.at \in {"run", "ok", "RuntimeError"} => (a.grant # 0 /\ a.worker # 0))
  /\ [](result = Err("ConfigError") => (grants = {} /\ workers = {}))
  /\ [](result = Err("CreationError") => (workers = {} /\ ~ran.called))
  /\ [](\A f \in finished :
          /\ f.outcome = "ConfigError" =>
               (\A g \in grants : g.owner # f.id) /\ (\A w \in workers : w.owner # f.id)
          /\ f.outcome = "CreationError" => \A w \in workers : w.owner # f.id
          /\ f.outcome \in {"ok", "RuntimeError"} =>
               \E w \in workers : w.owner = f.id /\ w.runs = 1)
  /\ [][\A w \in workers' :
          IF \E v \in workers : v.id = w.id
            THEN \A v \in workers : v.id = w.id => w.runs \in {v.runs, v.runs + 1}
            ELSE /\ w.runs = 0
                 /\ \E g \in grants : g.id = w.grant /\ g.owner = w.owner]_vars

C14_Witness ==
  /\ WatchInvocation
  /\ \E w \in workers : w.owner = 2 /\ w.runs = 1
  /\ \E f \in finished : f.outcome = "CreationError"

\* C15: in watch mode every build of an attempt, the first included, is
\* preceded by its own reset of the watcher state of ps, and the attempt works
\* on the copy of ps taken after that reset: there are exactly as many resets
\* as builds, and attempt number k holds the state of reset number k.
C15_ResetBeforeEveryBuild ==
  /\ [](ps_resets = builds)
  /\ [](\A a \in LiveAttempts : a.ps = a.id /\ a.id <= ps_resets)
  /\ [][builds' # builds =>
          /\ builds' = builds + 1
          /\ ps_resets' = ps_resets + 1
          /\ attempt'.id = builds'
          /\ attempt'.ps = ps_resets']_vars

C15_Witness ==
  /\ builds = 2
  /\ ps_resets = 2
  /\ attempt.id = 2 /\ attempt.ps = 2
  /\ \E a \in cancelled : a.id = 1 /\ a.ps = 1

\* C16: in watch mode, after an attempt's run_for_watcher has returned
\* normally no new attempt is built until the next change notification is
\* received: a build happens only initially or right after a notification was
\* taken from the channel, so there is never more than one build per received
\* notification plus the initial one.
C16_RerunOnlyOnChange ==
  /\ [](builds <= (sent - chan) + 1)
  /\ [][builds' # builds =>
          \/ sup = "Idle" /\ builds = 0
          \/ sup = "ChangeDetected"]_vars
  /\ [][(sup = "Completed" /\ attempt.at = "ok") =>
          /\ builds' = builds
          /\ attempt' \in {attempt, NoAttempt}
          /\ (attempt' = NoAttempt =>
                \/ chan' = chan - 1 /\ sup' = "ChangeDetected"
                \/ closed /\ chan = 0 /\ sup' = "Fatal")]_vars

C16_Witness ==
  /\ \E f \in finished : f.outcome = "ok" /\ f.id = 1
  /\ builds = 2
  /\ sent - chan = 1


InFlight == {"perms", "create", "run"}

\* C17: in watch mode, when the supervisor receives a change notification
\* while an attempt is running, at whatever point of the attempt, it drops the
\* attempt unfinished without waiting for it, and then builds a new attempt;
\* a dropped attempt makes no further progress and its result is never
\* observed: only the attempt being driven ever reports a result.
C17_ChangeCancelsRunningAttempt ==
  /\ [][(sup = "Running" /\ sup' = "ChangeDetected") =>
          /\ chan > 0 /\ chan' = chan - 1
          /\ attempt.at \in InFlight
          /\ cancelled' = cancelled \cup {attempt}
          /\ attempt' = NoAttempt
          /\ UNCHANGED <<finished, reports, workers, grants, builds>>]_vars
  /\ [][\A f \in finished' \ finished :
          sup = "Running" /\ f.id = attempt.id /\ f.id = builds]_vars
  /\ [][cancelled' \subseteq cancelled \cup {attempt}]_vars
  /\ [][sup = "ChangeDetected" =>
          sup' \in {"ChangeDetected", "BuildingOperation"}]_vars
  /\ [](\A a \in cancelled :
          a.at \in InFlight /\ \A f \in finished : f.id # a.id)

C17_Witness ==
  /\ builds = 2
  /\ attempt.id = 2
  /\ finished = {}
  /\ \E a \in cancelled : a.id = 1 /\ a.at = "run"

StdinOrEval == op \in {"run_from_stdin", "eval_command"}

\* C18: in run_from_stdin and eval_command the virtual file is inserted in
\* the source cache strictly before the worker is created, under the very
\* specifier given to create_main_worker as the entry point, so whenever a
\* worker exists its entry point is in the cache.
C18_FileInsertedBeforeWorker ==
  /\ [](StdinOrEval =>
          \A w \in workers :
            /\ w.entry = main_module
            /\ w.entry # NoModule
            /\ cache[w.entry] # NoFile)
  /\ [](StdinOrEval =>
          \A s \in Specifiers : cache[s] # NoFile => s = main_module)
  /\ [][(StdinOrEval /\ workers' # workers /\ workers = {}) =>
          (cache[main_module] # NoFile /\ cache' = cache)]_vars
  /\ [][(StdinOrEval /\ cache' # cache) => (workers = {} /\ workers' = {})]_vars

C18_Witness ==
  /\ op = "eval_command"
  /\ eval_flags.code # << >>
  /\ \E w \in workers : w.entry = main_module
  /\ cache[main_module].media_type = "Unknown"
  /\ cache[main_module].source # << >>

\* C19: every non-watch invocation builds at most one permission grant,
\* creates at most one worker and calls run on it at most once, and takes no
\* step after it has returned; in no mode is a worker run a second time.
C19_SingleGrantWorkerRun ==
  /\ [](NonWatchInvocation =>
          /\ Cardinality(grants) <= 1
          /\ Cardinality(workers) <= 1
          /\ ran.called => pc = "done")
  /\ [](\A w \in workers : w.runs <= 1)
  /\ [][~(NonWatchInvocation /\ pc = "done")]_vars
  /\ [][\A w \in workers : w.runs = 1 => w \in workers']_vars

C19_Witness ==
  /\ op = "run_script"
  /\ ~flags.watch
  /\ pc = "done"
  /\ ran.called /\ ran.kind = "err"
  /\ \E w \in workers : w.runs = 1

\* C20: in watch mode the entry point is resolved exactly once, before the
\* loop starts, and never again; every attempt and every worker of every
\* iteration gets that same entry specifier, whatever notifications arrive.
C20_EntryResolvedOnce ==
  /\ [](WatchInvocation =>
          /\ resolves <= 1
          /\ sup # "NotStarted" => (resolves = 1 /\ main_module # NoModule)
          /\ \A a \in LiveAttempts : a.entry = main_module
          /\ \A w \in workers : w.entry = main_module)
  /\ [][(WatchInvocation /\ sup # "NotStarted") =>
          (main_module' = main_module /\ resolves' = resolves)]_vars

C20_Witness ==
  /\ WatchInvocation
  /\ resolves = 1
  /\ sent - chan >= 1
  /\ \E w \in workers : w.owner = 1 /\ w.entry = main_module
  /\ \E w \in workers : w.owner = 2 /\ w.entry = main_module

====
